---- MODULE Spec2Model ----
(***************************************************************************)
(* A model of wsgize (versions 0.1 and 0.3): the response() status         *)
(* formatter, the Wsgize and WsgiWrap wrappers, the secondary dispatcher   *)
(* WsgiRoute and the 0.3 routing table with register()/route().            *)
(*                                                                         *)
(* The library is Python 2 code.  Python values are records                *)
(*     [kind, items, kw]                                                   *)
(* kind is the Python type, items the elements (atoms written as their     *)
(* literals), kw the (key, value) pairs of a dict in iteration order.      *)
(* A tuple holding a tuple and a dict, the shape of wsgiorg.routing_args,  *)
(* has kind "tuple(tuple,dict)": items is the inner tuple, kw the dict.    *)
(*                                                                         *)
(* Every operation is one action: it runs the whole method and leaves in   *)
(* `log` the calls the method made, in their order, and in `result` what   *)
(* it returned or raised.  Definitions named *_01 and *_03 model the code  *)
(* of one version; the others model code that both versions share.         *)
(***************************************************************************)
EXTENDS Integers, Sequences, FiniteSets, TLC

VARIABLES
    wrapper,      \* the Wsgize / WsgiWrap object under study (its attributes)
    keywords,     \* history: the keyword arguments it was constructed with
    routes,       \* 0.3: the module-level routing table `routes`
    registered,   \* history: what register() was last given for each name
    dispatchers,  \* the WsgiRoute objects constructed so far
    given,        \* history: the `table` argument each was constructed with
    sys_path,     \* sys.path entries appended by WsgiRoute.__init__
    environ,      \* the environ of the last call
    log,          \* the calls made during the last operation, in order
    result        \* how the last operation ended: what it returned or raised

vars ==
    <<wrapper, keywords, routes, registered, dispatchers, given, sys_path,
      environ, log, result>>

(***************************************************************************)
(* Bounds of the model.                                                    *)
(***************************************************************************)
MaxHeaders == 2       \* entries in the `headers` option
MaxAppCalls == 1      \* start_response calls the wrapped callable makes
MaxDispatchers == 2   \* WsgiRoute objects constructed
MaxSysPath == 1       \* entries appended to sys.path

(***************************************************************************)
(* Python values.                                                          *)
(***************************************************************************)
PyVal(k, i, d) == [kind |-> k, items |-> i, kw |-> d]
PyNone == PyVal("NoneType", <<>>, <<>>)
PyFalse == PyVal("bool", <<>>, <<>>)
PyInt(n) == PyVal("int", <<n>>, <<>>)
PyStr(s) == PyVal("str", <<s>>, <<>>)
PyUnicode(s) == PyVal("unicode", <<s>>, <<>>)
PyList(i) == PyVal("list", i, <<>>)
PyTuple(i) == PyVal("tuple", i, <<>>)
PyDict(d) == PyVal("dict", <<>>, d)
PyPair(i, d) == PyVal("tuple(tuple,dict)", i, d)
PyGenerator(i) == PyVal("generator", i, <<>>)
\* not a Python value: the key is not in the mapping
Absent == PyVal("<absent>", <<>>, <<>>)

\* Python 2: str and unicode have no __iter__ attribute; the containers
\* and generators do; numbers and None do not.
HasIter(data) ==
    data.kind \in {"list", "tuple", "dict", "generator", "tuple(tuple,dict)"}

IsBasestring(data) == data.kind \in {"str", "unicode"}

\* truth value of `if v:`
Truthy(v) ==
    CASE v.kind \in {"NoneType", "<absent>"} -> FALSE
      [] v.kind = "bool" -> v.items /= <<>>
      [] v.kind = "int" -> v.items /= <<"0">>
      [] v.kind \in {"str", "unicode"} -> v.items /= <<"">>
      [] v.kind = "dict" -> v.kw /= <<>>
      [] v.kind = "tuple(tuple,dict)" -> TRUE
      [] OTHER -> v.items /= <<>>

\* the keys of environ that the library reads
EnvKeys ==
    {"wsgize.args", "wsgize.kwargs", "wsgiorg.routing_args", "wsgize.callable"}

\* an environ without any of them
NoEnviron == [k \in EnvKeys |-> Absent]

\* environ.get(key, default)
EnvGet(env, key, default) ==
    IF env[key] = Absent THEN default ELSE env[key]

(***************************************************************************)
(* Outcomes of a call: a value returned or an exception raised.            *)
(***************************************************************************)
Returned(v) == [op |-> "", obj |-> 0, state |-> "returned", value |-> v, exc |-> "", fn |-> ""]
\* a callable object returned (WsgiRoute.lookup, the route decorator)
ReturnedFn(f) == [op |-> "", obj |-> 0, state |-> "returned", value |-> PyNone, exc |-> "", fn |-> f]
Raised(e) == [op |-> "", obj |-> 0, state |-> "raised", value |-> PyNone, exc |-> e, fn |-> ""]
NoResult == [op |-> "", obj |-> 0, state |-> "none", value |-> PyNone, exc |-> "", fn |-> ""]
\* the outcome r as the outcome of the operation named o
Of(o, r) == [r EXCEPT !.op = o]
\* the same, of a method of dispatchers[i]
OfDispatcher(o, i, r) == [r EXCEPT !.op = o, !.obj = i]

(***************************************************************************)
(* The calls an operation makes, as they are logged.                       *)
(***************************************************************************)
\* `who` calls f(*a, **d)
CallEvent(who, f, a, d) ==
    [ev |-> "call", by |-> who, fn |-> f, args |-> a, kw |-> d, env |-> NoEnviron,
     status |-> "", headers |-> <<>>, exc_info |-> ""]
\* f has returned
ReturnEvent(f) ==
    [ev |-> "return", by |-> f, fn |-> f, args |-> <<>>, kw |-> <<>>, env |-> NoEnviron,
     status |-> "", headers |-> <<>>, exc_info |-> ""]
\* start_response(status, headers, exc_info), called by `who`
StartResponse(who, s, h, e) ==
    [ev |-> "start_response", by |-> who, fn |-> "start_response",
     args |-> <<>>, kw |-> <<>>, env |-> NoEnviron,
     status |-> s, headers |-> h, exc_info |-> e]

\* the positional arguments of a WSGI call; the event's env field holds
\* the environ that was passed
WsgiArgs == <<"environ", "start_response">>

\* `who` calls f(environ, start_response)
WsgiCallEvent(who, f, e) == [CallEvent(who, f, WsgiArgs, <<>>) EXCEPT !.env = e]

\* the module and attribute that getcallback imports
ImportEvent(who, mod, func) ==
    [ev |-> "import", by |-> who, fn |-> func, args |-> mod, kw |-> <<>>, env |-> NoEnviron,
     status |-> "", headers |-> <<>>, exc_info |-> ""]


(***************************************************************************)
(* response(code)                                                          *)
(***************************************************************************)
\* BaseHTTPRequestHandler.responses, the codes the model uses
Responses ==
    [code \in {200, 404, 500} |->
        CASE code = 200 -> "OK"
          [] code = 404 -> "Not Found"
          [] code = 500 -> "Internal Server Error"]

\* '%i %s' % (code, responses[code][0]); KeyError for an unknown code
response(code) ==
    IF code \in DOMAIN Responses
       THEN Returned(PyStr(ToString(code) \o " " \o Responses[code]))
       ELSE Raised("KeyError")

(***************************************************************************)
(* Dicts as sequences of (key, value) pairs with distinct keys.            *)
(***************************************************************************)
\* DictKeys, iterating from the last key to the first
DictKeys_reversed(d) == [i \in 1..Len(d) |-> d[Len(d) + 1 - i][1]]

\* the keys in iteration order: `for key in d`
DictKeys(d) == [i \in 1..Len(d) |-> d[i][1]]

\* d[key], for a key of d
DictGet(d, key) == d[CHOOSE i \in 1..Len(d) : d[i][1] = key][2]

\* kw.get(name, default) on the keyword arguments of a constructor: an
\* option is <<>> when it was not passed and <<value>> when it was
KwGet(opt, default) == IF opt = <<>> THEN default ELSE opt[1]

(***************************************************************************)
(* The wrapped callable.  What it does when called is part of the input:   *)
(* it calls start_response `calls` times (a WSGI callable may), then it    *)
(* raises or returns `ret`.                                                *)
(***************************************************************************)
\* what app does once entered (the event `call`)
Run(app, call) ==
    LET entered == <<call>> \o
                   [i \in 1..app.calls |->
                       StartResponse(app.name, "200 OK", <<>>, "None")]
    IN  IF app.raises
           THEN [log |-> entered, exc |-> "ApplicationError", data |-> PyNone]
           ELSE [log |-> entered \o <<ReturnEvent(app.name)>>, exc |-> "",
                 data |-> app.ret]

\* `who` calls app(*a, **d)
Apply(who, app, a, d) == Run(app, CallEvent(who, app.name, a, d))

\* `who` calls app(environ, start_response)
ApplyWsgi(who, app, env) == Run(app, WsgiCallEvent(who, app.name, env))

(***************************************************************************)
(* class Wsgize                                                            *)
(***************************************************************************)
NoWrapper ==
    [class |-> "none", version |-> "", application |-> [name |-> "", ret |-> PyNone, calls |-> 0, raises |-> FALSE],
     start_response |-> "", headers |-> <<>>, exc_info |-> "",
     kwargkey |-> "", argkey |-> "", key |-> ""]

\* Wsgize.__init__(self, app, **kw); WsgiWrap inherits it.  The result is
\* the new object, or the KeyError of response() and no object.
Wsgize_init(class, version, app, kw) ==
    LET status == response(KwGet(kw.response, 200))
        exheaders == KwGet(kw.headers, <<>>)
        headers == [i \in 1..Len(exheaders) |->
                       <<DictKeys(exheaders)[i],
                         DictGet(exheaders, DictKeys(exheaders)[i])>>]
    IN  IF status.state = "raised"
           THEN [raised |-> status.exc, self |-> NoWrapper]
           ELSE [raised |-> "",
                 self |->
                    [class |-> class, version |-> version, application |-> app,
                     start_response |-> status.value.items[1],
                     headers |-> <<<<"Content-type", KwGet(kw.mime, "text/html")>>>>
                                 \o headers,
                     exc_info |-> KwGet(kw.exc_info, "None"),
                     kwargkey |-> KwGet(kw.kwargs, "wsgize.kwargs"),
                     argkey |-> KwGet(kw.args, "wsgize.args"),
                     key |-> IF version = "0.3"
                                THEN KwGet(kw.routing_args, "wsgiorg.routing_args")
                                ELSE ""]]

\* the start_response call of the wrapper itself
Autogenerated(self) ==
    StartResponse("wrapper", self.start_response, self.headers, self.exc_info)

\* Wsgize_call, with start_response called before the wrapped callable
Wsgize_call_early(self, env) ==
    LET ran == ApplyWsgi("wrapper", self.application, env)
        data == ran.data
    IN  IF ran.exc /= ""
           THEN [log |-> <<Autogenerated(self)>> \o ran.log, result |-> Raised(ran.exc)]
           ELSE [log |-> <<Autogenerated(self)>> \o ran.log,
                 result |->
                    IF HasIter(data)
                       THEN IF IsBasestring(data)
                               THEN Returned(PyList(<<data.items[1]>>))
                               ELSE Returned(data)
                       ELSE Raised("TypeError")]

\* Wsgize.__call__(self, environ, start_response)
Wsgize_call(self, env) ==
    LET ran == ApplyWsgi("wrapper", self.application, env)
        data == ran.data
    IN  IF ran.exc /= ""
           THEN [log |-> ran.log, result |-> Raised(ran.exc)]
           ELSE [log |-> ran.log \o <<Autogenerated(self)>>,
                 result |->
                    IF HasIter(data)
                       THEN IF IsBasestring(data)
                               THEN Returned(PyList(<<data.items[1]>>))
                               ELSE Returned(data)
                       ELSE Raised("TypeError")]

(***************************************************************************)
(* class WsgiWrap(Wsgize)                                                  *)
(***************************************************************************)
\* `args, kw = value`: unpacking a value to two names
Unpack2(value) ==
    CASE value.kind = "tuple(tuple,dict)" ->
            [exc |-> "", args |-> PyTuple(value.items), kw |-> PyDict(value.kw)]
      [] value.kind \in {"tuple", "list"} /\ Len(value.items) = 2 ->
            [exc |-> "", args |-> PyInt(value.items[1]), kw |-> PyInt(value.items[2])]
      [] value.kind \in {"tuple", "list"} /\ Len(value.items) /= 2 ->
            [exc |-> "ValueError", args |-> PyNone, kw |-> PyNone]
      [] OTHER ->
            \* None, a number: not iterable
            [exc |-> "TypeError", args |-> PyNone, kw |-> PyNone]

\* self.application(*args, **kw): TypeError unless args is a sequence and
\* kw a mapping
ApplyStar(app, args, kw) ==
    IF args.kind \in {"tuple", "list"} /\ kw.kind = "dict"
       THEN Apply("wrapper", app, args.items, kw.kw)
       ELSE [log |-> <<>>, exc |-> "TypeError", data |-> PyNone]

\* The part of WsgiWrap.__call__ after the arguments were fetched: the call
\* of the wrapped callable, start_response and the wrapping of a string.
\* `data` is bound only when a call was made.
WsgiWrap_pass(self, args, kw) ==
    LET called == Truthy(args) \/ Truthy(kw)
        ran == CASE Truthy(args) /\ Truthy(kw) ->
                      ApplyStar(self.application, args, kw)
                 [] Truthy(args) /\ ~Truthy(kw) ->
                      ApplyStar(self.application, args, PyDict(<<>>))
                 [] ~Truthy(args) /\ Truthy(kw) ->
                      ApplyStar(self.application, PyTuple(<<>>), kw)
                 [] OTHER -> [log |-> <<>>, exc |-> "", data |-> PyNone]
        data == ran.data
    IN  IF ran.exc /= ""
           THEN [log |-> ran.log, result |-> Raised(ran.exc)]
           ELSE [log |-> ran.log \o <<Autogenerated(self)>>,
                 result |->
                    IF ~called
                       THEN Raised("UnboundLocalError")
                       ELSE IF IsBasestring(data)
                               THEN Returned(PyList(<<data.items[1]>>))
                               ELSE Returned(data)]

\* 0.1: the arguments that WsgiWrap.__call__ fetches from environ
WsgiWrap_args_01(self, env) ==
    [exc |-> "",
     args |-> EnvGet(env, self.argkey, PyFalse),
     kw |-> EnvGet(env, self.kwargkey, PyFalse)]

\* 0.3: the arguments that WsgiWrap.__call__ fetches from environ: the
\* pair under self.key, and the two keys of 0.1 on a ValueError; any other
\* exception of the unpacking leaves the method
WsgiWrap_args_03(self, env) ==
    LET both == Unpack2(EnvGet(env, self.key, PyNone))
    IN  IF both.exc = "ValueError"
           THEN [exc |-> "",
                 args |-> EnvGet(env, self.argkey, PyTuple(<<>>)),
                 kw |-> EnvGet(env, self.kwargkey, PyDict(<<>>))]
           ELSE both

WsgiWrap_args(self, env) ==
    IF self.version = "0.1" THEN WsgiWrap_args_01(self, env)
                            ELSE WsgiWrap_args_03(self, env)

\* WsgiWrap.__call__(self, environ, start_response)
WsgiWrap_call(self, env) ==
    LET got == WsgiWrap_args(self, env)
    IN  IF got.exc /= ""
           THEN [log |-> <<>>, result |-> Raised(got.exc)]
           ELSE WsgiWrap_pass(self, got.args, got.kw)

\* calling the wrapper object
Wrapper_call(self, env) ==
    IF self.class = "Wsgize" THEN Wsgize_call(self, env)
                             ELSE WsgiWrap_call(self, env)

(***************************************************************************)
(* Inputs of the wrappers.                                                 *)
(***************************************************************************)
Versions == {"0.1", "0.3"}

\* what a wrapped callable returns
ReturnValues ==
    {PyStr("hello"), PyList(<<"a", "b", "c">>), PyInt("42")}

\* A WSGI callable is given start_response and may call it; a callable
\* wrapped by WsgiWrap is not given it.
Applications(class) ==
    {[name |-> "application", ret |-> r, calls |-> n, raises |-> FALSE] :
        r \in ReturnValues,
        n \in IF class = "Wsgize" THEN 0..MaxAppCalls ELSE {0}}
    \cup {[name |-> "application", ret |-> PyNone, calls |-> 0, raises |-> TRUE]}

HeaderNames == {"Content-type", "X-Powered-By"}

HeaderValue(name) ==
    IF name = "Content-type" THEN "application/json" ELSE "wsgize"

\* the dicts that may be passed as `headers`: distinct keys, any order
ExtraHeaders ==
    {h \in UNION {[1..n -> {<<k, HeaderValue(k)>> : k \in HeaderNames}] :
                     n \in 0..MaxHeaders} :
        \A i, j \in 1..Len(h) : h[i][1] = h[j][1] => i = j}

\* the keyword arguments of the constructor
Keywords ==
    [response : {<<>>, <<404>>, <<999>>},
     mime : {<<>>, <<"text/plain">>},
     headers : {<<>>} \cup {<<h>> : h \in ExtraHeaders \ {<<>>}},
     exc_info : {<<>>, <<"exc_info">>},
     args : {<<>>}, kwargs : {<<>>}, routing_args : {<<>>}]

\* Wsgize(app): no keyword arguments
NoKeywords ==
    [response |-> <<>>, mime |-> <<>>, headers |-> <<>>, exc_info |-> <<>>,
     args |-> <<>>, kwargs |-> <<>>, routing_args |-> <<>>]

\* what environ may hold under wsgiorg.routing_args
RoutingValues ==
    {Absent,
     PyPair(<<"1", "2">>, <<<<"x", "3">>>>), PyPair(<<"1", "2">>, <<>>),
     PyPair(<<>>, <<<<"x", "3">>>>), PyPair(<<>>, <<>>),
     PyTuple(<<>>)}

ArgValues == {Absent, PyTuple(<<>>), PyTuple(<<"8", "9">>)}

KwargValues == {Absent, PyDict(<<<<"y", "7">>>>)}

Environ(ra, a, d, c) ==
    [k \in EnvKeys |->
        CASE k = "wsgiorg.routing_args" -> ra
          [] k = "wsgize.args" -> a
          [] k = "wsgize.kwargs" -> d
          [] k = "wsgize.callable" -> c]

\* Wsgize hands environ to the wrapped callable and never reads it
WrapperEnvirons(class) ==
    IF class = "Wsgize"
       THEN {NoEnviron, Environ(Absent, PyTuple(<<"8", "9">>), Absent, Absent)}
       ELSE {Environ(ra, a, d, Absent) :
                ra \in RoutingValues, a \in ArgValues, d \in KwargValues}

(***************************************************************************)
(* Operations on the wrapper under study.                                  *)
(***************************************************************************)
\* wrapper = Wsgize(app, **kw)  or  wrapper = WsgiWrap(app, **kw)
Construct ==
    /\ wrapper = NoWrapper
    /\ \E class \in {"Wsgize", "WsgiWrap"}, version \in Versions, kw \in Keywords :
         \E app \in Applications(class) :
            LET made == Wsgize_init(class, version, app, kw)
            IN  /\ wrapper' = made.self
                /\ keywords' = kw
                /\ result' = Of("__init__", IF made.raised = "" THEN NoResult
                                                ELSE Raised(made.raised))
                /\ log' = <<>>
                /\ environ' = NoEnviron
    /\ UNCHANGED <<routes, registered, dispatchers, sys_path, given>>

\* wrapper(environ, start_response)
Invoke ==
    /\ wrapper /= NoWrapper
    /\ \E env \in WrapperEnvirons(wrapper.class) :
          LET out == Wrapper_call(wrapper, env)
          IN  /\ environ' = env
              /\ log' = out.log
              /\ result' = Of("__call__", out.result)
    /\ UNCHANGED <<wrapper, keywords, routes, registered, dispatchers, sys_path, given>>

(***************************************************************************)
(* Routing tables.  An entry is a callable or a dotted-path string; a      *)
(* dotted path is the sequence of its segments: "mypkg.handlers.greet" is  *)
(* <<"mypkg", "handlers", "greet">> and '' is <<>>.                        *)
(***************************************************************************)
TableKeys == {"greet", "bye"}

Callable(f) == [kind |-> "callable", fn |-> f, path |-> <<>>]
Dotted(p) == [kind |-> "str", fn |-> "", path |-> p]
NoEntry == [kind |-> "<absent>", fn |-> "", path |-> <<>>]

\* dict()
EmptyTable == [k \in TableKeys |-> NoEntry]

\* key in table
HasKey(table, key) == key \in DOMAIN table /\ table[key] /= NoEntry

\* 0.3: register(name, application), on the table `routes`
register(table, name, application) == [table EXCEPT ![name] = application]

\* 0.3: route(name)(application): the decorator registers the application
\* and returns it
route(table, name, application) ==
    [table |-> register(table, name, application),
     log |-> <<CallEvent("decorator", "register", <<name, application.fn>>, <<>>)>>,
     result |-> ReturnedFn(application.fn)]

(***************************************************************************)
(* The modules that __import__ finds.                                      *)
(***************************************************************************)
\* the attributes of a module, for a module that can be imported;
\* plugins is found only with /srv/plugins on sys.path
Import(mod, path) ==
    CASE mod = <<"mypkg", "handlers">> -> [found |-> TRUE, attrs |-> {"greet"}]
      [] mod = <<"plugins">> /\ \E i \in 1..Len(path) : path[i] = "/srv/plugins" ->
            [found |-> TRUE, attrs |-> {"bye"}]
      [] OTHER -> [found |-> FALSE, attrs |-> {}]

\* getattr(module, name): the function that the module defines by that name
Getattr(mod, name) == name \o "Fn"

\* the callables that tables hold and imports find, as they behave when
\* called with (environ, start_response)
Handler(f) ==
    CASE f = "greetFn" ->
            [name |-> f, ret |-> PyStr("hello"), calls |-> 1, raises |-> FALSE]
      [] f = "byeFn" ->
            [name |-> f, ret |-> PyInt("7"), calls |-> 0, raises |-> FALSE]
      [] OTHER ->
            [name |-> f, ret |-> PyNone, calls |-> 0, raises |-> TRUE]

(***************************************************************************)
(* class WsgiRoute                                                         *)
(***************************************************************************)
\* WsgiRoute_init_03, keeping a copy of `routes` as it is at construction
WsgiRoute_init_03_copy(table, kw) ==
    [version |-> "0.3",
     shared |-> FALSE,
     table |-> IF table /= <<>> THEN table[1] ELSE routes,
     modpath |-> KwGet(kw.modpath, <<>>),
     key |-> KwGet(kw.key, "wsgize.callable")]

\* 0.3: WsgiRoute.__init__(self, table=None, **kw).  `table` is <<>> for
\* None.  A dispatcher made without a table refers to `routes`, the
\* module's table, and holds no table of its own.
WsgiRoute_init_03(table, kw) ==
    [version |-> "0.3",
     shared |-> table = <<>>,
     table |-> IF table /= <<>> THEN table[1] ELSE EmptyTable,
     modpath |-> KwGet(kw.modpath, <<>>),
     key |-> KwGet(kw.key, "wsgize.callable")]

\* 0.1: WsgiRoute.__init__(self, *args, **kw), the table being args[0];
\* the attribute `key` is named kwargkey there
WsgiRoute_init_01(args, kw) ==
    [version |-> "0.1",
     shared |-> FALSE,
     table |-> args[1],
     modpath |-> KwGet(kw.modpath, <<>>),
     key |-> KwGet(kw.kwargkey, "wsgize.callable")]

\* `for path in syspaths: sys.path.append(path)`, None being <<>>
AppendSysPaths(path, kw) == path \o KwGet(kw.syspaths, <<>>)

\* WsgiRoute.getmodfunc (0.1: get_mod_func)
getmodfunc(self, callback) ==
    LET name == IF self.modpath /= <<>> THEN self.modpath \o callback
                                        ELSE callback
    IN  IF Len(name) < 2
           THEN [exc |-> "ValueError", mod |-> <<>>, func |-> ""]
           ELSE [exc |-> "", mod |-> SubSeq(name, 1, Len(name) - 1),
                 func |-> name[Len(name)]]

\* WsgiRoute.getcallback (0.1: get_callback)
getcallback(self, callback, path) ==
    LET mf == getmodfunc(self, callback)
        module == Import(mf.mod, path)
    IN  CASE mf.exc /= "" -> [log |-> <<>>, result |-> Raised(mf.exc)]
          [] mf.exc = "" /\ ~module.found ->
                [log |-> <<ImportEvent("dispatcher", mf.mod, mf.func)>>,
                 result |-> Raised("ImportError")]
          [] mf.exc = "" /\ module.found /\ mf.func \notin module.attrs ->
                [log |-> <<ImportEvent("dispatcher", mf.mod, mf.func)>>,
                 result |-> Raised("AttributeError")]
          [] OTHER ->
                [log |-> <<ImportEvent("dispatcher", mf.mod, mf.func)>>,
                 result |-> ReturnedFn(Getattr(mf.mod, mf.func))]

\* 0.3: hasattr(callback, '__call__')
HasCall(entry) == entry.kind = "callable"

\* 0.1: isinstance(callable, basestring)
IsString(entry) == entry.kind = "str"

\* lookup, storing the callable it resolved in the place of the string
lookup_caching(self, table, kw, path) ==
    IF ~HasKey(table, kw)
       THEN [table |-> table, log |-> <<>>, result |-> Raised("KeyError")]
       ELSE LET callback == table[kw]
                resolved == getcallback(self, callback.path, path)
            IN  IF callback.kind = "callable"
                   THEN [table |-> table, log |-> <<>>,
                         result |-> ReturnedFn(callback.fn)]
                   ELSE [table |-> IF resolved.result.state = "returned"
                                      THEN [table EXCEPT
                                              ![kw] = Callable(resolved.result.fn)]
                                      ELSE table,
                         log |-> resolved.log,
                         result |-> resolved.result]

\* WsgiRoute.lookup(self, kw), reading `table`.  The table after the call
\* is part of the outcome.
lookup(self, table, kw, path) ==
    IF ~HasKey(table, kw)
       THEN [table |-> table, log |-> <<>>, result |-> Raised("KeyError")]
       ELSE LET callback == table[kw]
                direct == IF self.version = "0.3" THEN HasCall(callback)
                                                  ELSE ~IsString(callback)
            IN  IF direct
                   THEN [table |-> table, log |-> <<>>,
                         result |-> ReturnedFn(callback.fn)]
                   ELSE [table |-> table,
                         log |-> getcallback(self, callback.path, path).log,
                         result |-> getcallback(self, callback.path, path).result]

\* WsgiRoute_call, wrapping a string that the handler returns in a list
WsgiRoute_call_wrapping(self, table, env, path) ==
    IF env[self.key] = Absent
       THEN [table |-> table, log |-> <<>>, result |-> Raised("KeyError")]
       ELSE LET found == lookup(self, table, env[self.key].items[1], path)
                ran == ApplyWsgi("dispatcher", Handler(found.result.fn), env)
            IN  IF found.result.state = "raised"
                   THEN found
                   ELSE [table |-> found.table,
                         log |-> found.log \o ran.log,
                         result |->
                            IF ran.exc /= "" THEN Raised(ran.exc)
                            ELSE IF IsBasestring(ran.data)
                                    THEN Returned(PyList(ran.data.items))
                                    ELSE Returned(ran.data)]

\* WsgiRoute.__call__(self, environ, start_response), reading `table`
WsgiRoute_call(self, table, env, path) ==
    IF env[self.key] = Absent
       THEN [table |-> table, log |-> <<>>, result |-> Raised("KeyError")]
       ELSE LET found == lookup(self, table, env[self.key].items[1], path)
                ran == ApplyWsgi("dispatcher", Handler(found.result.fn), env)
            IN  IF found.result.state = "raised"
                   THEN found
                   ELSE [table |-> found.table,
                         log |-> found.log \o ran.log,
                         result |-> IF ran.exc /= "" THEN Raised(ran.exc)
                                                     ELSE Returned(ran.data)]

\* the table that dispatcher d reads
TableOf(d) == IF d.shared THEN routes ELSE d.table

(***************************************************************************)
(* Inputs of the dispatcher and of the routing table.                      *)
(***************************************************************************)
\* what is registered: callables, and a dotted path
Registrable ==
    {Callable("greetFn"), Callable("byeFn"), Dotted(<<"plugins", "bye">>)}

\* the tables passed to WsgiRoute
ExplicitTables ==
    {[k \in TableKeys |->
        IF k = "greet" THEN Callable("greetFn") ELSE Dotted(<<"handlers", "bye">>)]}

\* the keyword arguments of WsgiRoute
RouteKeywords(modpath, syspaths) ==
    [modpath |-> modpath, key |-> <<>>, kwargkey |-> <<>>, syspaths |-> syspaths]

\* 0.3: WsgiRoute(), WsgiRoute(syspaths=['/srv/plugins']) and, the names of
\* the table being relative to mypkg, WsgiRoute(table, modpath='mypkg')
Constructions03 ==
    {[table |-> <<>>, kw |-> RouteKeywords(<<>>, <<>>)],
     [table |-> <<>>, kw |-> RouteKeywords(<<>>, <<<<"/srv/plugins">>>>)]}
    \cup {[table |-> <<t>>, kw |-> RouteKeywords(<<<<"mypkg">>>>, <<>>)] :
             t \in ExplicitTables}

\* 0.1: WsgiRoute(table, modpath='mypkg')
Constructions01 ==
    {[table |-> <<t>>, kw |-> RouteKeywords(<<<<"mypkg">>>>, <<>>)] :
        t \in ExplicitTables}

DispatchKeys == {"greet", "bye", "missing"}

\* the names given to getcallback
DottedPaths == {<<"plugins", "bye">>, <<"greet">>}

DispatchEnvirons ==
    {NoEnviron} \cup {Environ(Absent, Absent, Absent, PyStr(k)) : k \in DispatchKeys}

(***************************************************************************)
(* Operations on the routing table and the dispatchers.                    *)
(***************************************************************************)
\* 0.3: register(name, application)
Register ==
    /\ \E name \in TableKeys, application \in Registrable :
          /\ routes' = register(routes, name, application)
          /\ registered' = [registered EXCEPT ![name] = application]
          /\ log' = <<>>
          /\ result' = Of("register", Returned(PyNone))
    /\ environ' = NoEnviron
    /\ UNCHANGED <<wrapper, keywords, dispatchers, sys_path, given>>

\* 0.3: @route(name) on the definition of a function
Route ==
    /\ \E name \in TableKeys, application \in {a \in Registrable : a.kind = "callable"} :
          LET out == route(routes, name, application)
          IN  /\ routes' = out.table
              /\ registered' = [registered EXCEPT ![name] = application]
              /\ log' = out.log
              /\ result' = Of("route", out.result)
    /\ environ' = NoEnviron
    /\ UNCHANGED <<wrapper, keywords, dispatchers, sys_path, given>>

\* 0.3: WsgiRoute(**kw) or WsgiRoute(table, **kw)
NewRoute03 ==
    /\ Len(dispatchers) < MaxDispatchers
    /\ \E new \in Constructions03 :
          /\ Len(AppendSysPaths(sys_path, new.kw)) <= MaxSysPath
          /\ dispatchers' = Append(dispatchers, WsgiRoute_init_03(new.table, new.kw))
          /\ given' = Append(given, new.table)
          /\ sys_path' = AppendSysPaths(sys_path, new.kw)
    /\ log' = <<>>
    /\ result' = Of("__init__", NoResult)
    /\ environ' = NoEnviron
    /\ UNCHANGED <<wrapper, keywords, routes, registered>>

\* 0.1: WsgiRoute(table, **kw)
NewRoute01 ==
    /\ Len(dispatchers) < MaxDispatchers
    /\ \E new \in Constructions01 :
          /\ Len(AppendSysPaths(sys_path, new.kw)) <= MaxSysPath
          /\ dispatchers' = Append(dispatchers, WsgiRoute_init_01(new.table, new.kw))
          /\ given' = Append(given, new.table)
          /\ sys_path' = AppendSysPaths(sys_path, new.kw)
    /\ log' = <<>>
    /\ result' = Of("__init__", NoResult)
    /\ environ' = NoEnviron
    /\ UNCHANGED <<wrapper, keywords, routes, registered>>

\* the tables after dispatcher i ran an operation that left its table as t
WriteBack(i, t) ==
    /\ routes' = IF dispatchers[i].shared THEN t ELSE routes
    /\ dispatchers' = IF dispatchers[i].shared THEN dispatchers
                         ELSE [dispatchers EXCEPT ![i].table = t]

\* dispatchers[i](environ, start_response)
Dispatch ==
    /\ \E i \in 1..Len(dispatchers), env \in DispatchEnvirons :
          LET out == WsgiRoute_call(dispatchers[i], TableOf(dispatchers[i]), env, sys_path)
          IN  /\ WriteBack(i, out.table)
              /\ environ' = env
              /\ log' = out.log
              /\ result' = OfDispatcher("WsgiRoute.__call__", i, out.result)
    /\ UNCHANGED <<wrapper, keywords, registered, sys_path, given>>

\* dispatchers[i].lookup(kw)
Lookup ==
    /\ \E i \in 1..Len(dispatchers), kw \in DispatchKeys :
          LET out == lookup(dispatchers[i], TableOf(dispatchers[i]), kw, sys_path)
          IN  /\ WriteBack(i, out.table)
              /\ log' = <<CallEvent("caller", "lookup", <<kw>>, <<>>)>> \o out.log
              /\ result' = OfDispatcher("lookup", i, out.result)
    /\ environ' = NoEnviron
    /\ UNCHANGED <<wrapper, keywords, registered, sys_path, given>>

\* dispatchers[i].getcallback(callback)
GetCallback ==
    /\ \E i \in 1..Len(dispatchers), callback \in DottedPaths :
          LET out == getcallback(dispatchers[i], callback, sys_path)
          IN  /\ log' = <<CallEvent("caller", "getcallback", callback, <<>>)>> \o out.log
              /\ result' = OfDispatcher("getcallback", i, out.result)
    /\ environ' = NoEnviron
    /\ UNCHANGED <<wrapper, keywords, routes, registered, dispatchers, sys_path, given>>

(***************************************************************************)
(* The specifications.  Spec is a wrapper, constructed and then called     *)
(* any number of times; SpecRoute is the routing table with the            *)
(* dispatchers that read it.                                               *)
(***************************************************************************)
Init ==
    /\ wrapper = NoWrapper
    /\ keywords = NoKeywords
    /\ routes = EmptyTable
    /\ registered = EmptyTable
    /\ dispatchers = <<>>
    /\ given = <<>>
    /\ sys_path = <<>>
    /\ environ = NoEnviron
    /\ log = <<>>
    /\ result = NoResult

Next == Construct \/ Invoke

Spec == Init /\ [][Next]_vars

NextRoute ==
    \/ Register \/ Route \/ NewRoute03 \/ NewRoute01
    \/ Dispatch \/ Lookup \/ GetCallback

SpecRoute == Init /\ [][NextRoute]_vars

(***************************************************************************)
(* Reading the log of the last operation.                                  *)
(***************************************************************************)
\* the positions of the start_response calls made by `who`
StartResponsesBy(who) ==
    {i \in 1..Len(log) : log[i].ev = "start_response" /\ log[i].by = who}

StartResponses == {i \in 1..Len(log) : log[i].ev = "start_response"}

\* the positions of the calls of wrapped callables and handlers
Calls == {i \in 1..Len(log) : log[i].ev = "call" /\ log[i].by /= "caller"}

\* the last operation was a call of the wrapper under study
Invoked(class) ==
    /\ wrapper.class = class
    /\ result.op = "__call__"

\* the wrapped callable was entered and has returned
ApplicationReturned == \E i \in 1..Len(log) : log[i].ev = "return"

TypeOK ==
    /\ result.state \in {"none", "returned", "raised"}
    /\ Len(dispatchers) = Len(given)
    /\ Len(dispatchers) <= MaxDispatchers
    /\ wrapper.application.calls <= MaxAppCalls

(***************************************************************************)
(* The claims about the wrappers, checked under Spec.                      *)
(***************************************************************************)
\* the wrapper was constructed with no keyword arguments
Defaults ==
    wrapper = Wsgize_init(wrapper.class, wrapper.version, wrapper.application,
                          NoKeywords).self

\* C1: a Wsgize constructed with defaults whose wrapped callable returns a
\* text t calls start_response exactly once, with "200 OK" and
\* [("Content-type", "text/html")], and returns the one-element sequence [t]
\* (it raises nothing).
C1_TextIsWrapped ==
    (/\ Invoked("Wsgize")
     /\ Defaults
     /\ ApplicationReturned
     /\ IsBasestring(wrapper.application.ret))
    => /\ Cardinality(StartResponsesBy("wrapper")) = 1
       /\ \A i \in StartResponsesBy("wrapper") :
             /\ log[i].status = "200 OK"
             /\ log[i].headers = <<<<"Content-type", "text/html">>>>
       /\ result.state = "returned"
       /\ result.value = PyList(wrapper.application.ret.items)

\* C2: 0.3: with no wsgiorg.routing_args in environ, WsgiWrap reads the
\* positional arguments under wsgize.args (else the empty tuple) and the
\* keyword arguments under wsgize.kwargs (else the empty mapping) and calls
\* the wrapped callable with exactly those; it does not fail for that.
C2_FallsBackWhenKeyAbsent ==
    (/\ Invoked("WsgiWrap")
     /\ wrapper.version = "0.3"
     /\ environ[wrapper.key] = Absent)
    => LET args == EnvGet(environ, wrapper.argkey, PyTuple(<<>>))
           kw == EnvGet(environ, wrapper.kwargkey, PyDict(<<>>))
       IN  (Truthy(args) \/ Truthy(kw))
           => /\ Cardinality(Calls) = 1
              /\ \A i \in Calls : log[i].args = args.items /\ log[i].kw = kw.kw
              /\ ~wrapper.application.raises => result.state = "returned"

\* C3: WsgiWrap normalizes as Wsgize does: when the wrapped callable
\* returns a value that is neither text nor iterable, the call raises
\* TypeError and the value is not returned as the body.
C3_AdapterRejectsNonIterable ==
    (/\ Invoked("WsgiWrap")
     /\ ApplicationReturned
     /\ ~IsBasestring(wrapper.application.ret)
     /\ ~HasIter(wrapper.application.ret))
    => /\ result.state = "raised"
       /\ result.exc = "TypeError"

\* C4: a call of a Wsgize or WsgiWrap that returns a body has called
\* start_response itself exactly once, with the status line, the header
\* list and the exc_info of its construction (None when none was given);
\* that call comes right after the wrapped callable returned and is the
\* last call of the request, the n calls the wrapped callable made itself
\* coming before it: n + 1 calls in all.
C4_AutogeneratedCallIsLast ==
    (/\ wrapper /= NoWrapper
     /\ result.op = "__call__"
     /\ result.state = "returned")
    => /\ Cardinality(StartResponsesBy("wrapper")) = 1
       /\ Len(log) >= 2
       /\ log[Len(log)] = StartResponse("wrapper", wrapper.start_response,
                                        wrapper.headers, wrapper.exc_info)
       /\ log[Len(log) - 1] = ReturnEvent(wrapper.application.name)
       /\ Cardinality(StartResponses) = wrapper.application.calls + 1
       /\ log[Len(log)].exc_info =
             (IF keywords.exc_info = <<>> THEN "None" ELSE keywords.exc_info[1])
       /\ log[Len(log)].status =
             (IF keywords.response = <<>> THEN "200 OK" ELSE "404 Not Found")

\* a Wsgize whose wrapped callable called start_response itself has
\* returned a body
C4_Witness ==
    /\ Invoked("Wsgize")
    /\ result.state = "returned"
    /\ wrapper.application.calls = 1
    /\ keywords.exc_info /= <<>>
    /\ keywords.response /= <<>>

\* C7: 0.3: when environ holds a pair (args, kw) under wsgiorg.routing_args,
\* WsgiWrap calls the wrapped callable with exactly those arguments,
\* whatever wsgize.args and wsgize.kwargs hold.
C7_CombinedPairIsPassed ==
    (/\ Invoked("WsgiWrap")
     /\ wrapper.version = "0.3"
     /\ environ[wrapper.key].kind = "tuple(tuple,dict)")
    => /\ Cardinality(Calls) = 1
       /\ \A i \in Calls : /\ log[i].args = environ[wrapper.key].items
                           /\ log[i].kw = environ[wrapper.key].kw

\* the Content-type entries of a header list
ContentTypes(headers) == {i \in 1..Len(headers) : headers[i][1] = "Content-type"}

\* the mime value the wrapper was configured with
ConfiguredMime == IF keywords.mime = <<>> THEN "text/html" ELSE keywords.mime[1]

\* the extra headers it was configured with, in iteration order
ConfiguredHeaders == IF keywords.headers = <<>> THEN <<>> ELSE keywords.headers[1]

\* C8 as stated: the header list holds exactly one Content-type entry, which
\* is its first element and carries the configured mime value, followed by
\* one pair for each extra header in iteration order.
C8_ExactlyOneContentType ==
    wrapper /= NoWrapper
    => /\ Cardinality(ContentTypes(wrapper.headers)) = 1
       /\ wrapper.headers[1] = <<"Content-type", ConfiguredMime>>
       /\ Tail(wrapper.headers) = ConfiguredHeaders
       /\ \A i \in StartResponsesBy("wrapper") : log[i].headers = wrapper.headers

\* C8: the first element of the header list is the Content-type entry that
\* carries the configured mime value, and it is followed by one pair for
\* each extra header in iteration order; an extra header named Content-type
\* is one of them, so that the list holds one Content-type entry more than
\* the extra headers do.
C8_ContentTypeFirst ==
    wrapper /= NoWrapper
    => /\ wrapper.headers[1] = <<"Content-type", ConfiguredMime>>
       /\ Tail(wrapper.headers) = ConfiguredHeaders
       /\ Cardinality(ContentTypes(wrapper.headers)) =
             1 + Cardinality(ContentTypes(ConfiguredHeaders))
       /\ \A i \in StartResponsesBy("wrapper") : log[i].headers = wrapper.headers

\* a wrapper configured with a mime value and two extra headers, the second
\* named Content-type, has called start_response
C8_Witness ==
    /\ wrapper /= NoWrapper
    /\ keywords.mime /= <<>>
    /\ Len(ConfiguredHeaders) = 2
    /\ ConfiguredHeaders[2][1] = "Content-type"
    /\ StartResponsesBy("wrapper") /= {}

\* environ gives WsgiWrap neither positional nor keyword arguments: the
\* keys wsgize.args and wsgize.kwargs are absent or hold empty values and,
\* in 0.3, there is nothing to unpack under wsgiorg.routing_args; or, in
\* 0.3, the pair under wsgiorg.routing_args is a pair of empty values
NothingToPass ==
    LET separate == /\ ~Truthy(environ[wrapper.argkey])
                    /\ ~Truthy(environ[wrapper.kwargkey])
    IN  IF wrapper.version = "0.1"
           THEN separate
           ELSE \/ environ[wrapper.key] = PyPair(<<>>, <<>>)
                \/ environ[wrapper.key] \in {Absent, PyTuple(<<>>)} /\ separate

\* C10: when environ gives WsgiWrap neither positional nor keyword
\* arguments, the wrapped callable is not called, start_response is called
\* once with the autogenerated status line and header list, and the call
\* ends in the failure of reading the result that was never produced: it
\* does not return.
C10_NothingToPassFails ==
    (Invoked("WsgiWrap") /\ NothingToPass)
    => /\ Calls = {}
       /\ log = <<StartResponse("wrapper", wrapper.start_response,
                                wrapper.headers, wrapper.exc_info)>>
       /\ result.state = "raised"
       /\ result.exc = "UnboundLocalError"

(***************************************************************************)
(* The claims about the dispatcher and the routing table, checked under    *)
(* SpecRoute.                                                              *)
(***************************************************************************)
\* the dispatcher whose method was the last operation
Self == dispatchers[result.obj]

\* the name that the last dispatch or lookup looked up, "" for none
LookedUp ==
    IF result.op = "lookup" THEN log[1].args[1]
    ELSE IF environ[Self.key] = Absent THEN ""
    ELSE environ[Self.key].items[1]

\* C5: when the table maps the value under the dispatch key to a live
\* callable h, the dispatcher calls h exactly once, with the environ it was
\* given, returns what h returns as it is, and does not call start_response
\* itself; when the table has no such name, or environ has no dispatch key,
\* the call raises KeyError and no handler is called.
C5_DispatchForwards ==
    result.op = "WsgiRoute.__call__"
    => LET entry == TableOf(Self)[LookedUp]
       IN  IF HasKey(TableOf(Self), LookedUp)
              THEN entry.kind = "callable"
                   => /\ Cardinality(Calls) = 1
                      /\ log[1] = WsgiCallEvent("dispatcher", entry.fn, environ)
                      /\ \A i \in StartResponses : log[i].by = entry.fn
                      /\ result.state = "returned"
                      /\ result.value = Handler(entry.fn).ret
              ELSE /\ result.state = "raised"
                   /\ result.exc = "KeyError"
                   /\ Calls = {}

\* a 0.1 dispatcher has forwarded a call to greetFn, which called
\* start_response and returned a string
C5_Witness ==
    /\ result.op = "WsgiRoute.__call__"
    /\ Self.version = "0.1"
    /\ LookedUp = "greet"
    /\ result.value = PyStr("hello")
    /\ StartResponses /= {}

\* what dispatcher d finds under name n is what was last registered there
FindsRegistered(d, n, found) ==
    CASE registered[n] = NoEntry ->
            found.state = "raised" /\ found.exc = "KeyError"
      [] registered[n].kind = "callable" ->
            found.state = "returned" /\ found.fn = registered[n].fn
      [] OTHER ->
            /\ found.state = getcallback(d, registered[n].path, sys_path).result.state
            /\ found.fn = getcallback(d, registered[n].path, sys_path).result.fn

\* C6: 0.3: a dispatcher constructed without a table resolves a name to the
\* callable registered last under that name, be it registered before or
\* after the dispatcher was constructed: a registration replaces the earlier
\* one of the same name and leaves the other names alone; route(n) applied
\* to a callable registers it and returns that callable.
C6_SharedTableIsLive ==
    /\ \A i \in 1..Len(dispatchers) :
          given[i] = <<>>
          => \A n \in TableKeys :
                FindsRegistered(dispatchers[i], n,
                    lookup(dispatchers[i], TableOf(dispatchers[i]), n, sys_path).result)
    /\ (result.op = "lookup" /\ given[result.obj] = <<>> /\ LookedUp \in TableKeys)
          => FindsRegistered(Self, LookedUp, result)
    /\ result.op = "route"
          => /\ result.state = "returned"
             /\ result.fn = log[1].args[2]
             /\ registered[log[1].args[1]] = Callable(result.fn)
             /\ routes[log[1].args[1]] = Callable(result.fn)

\* two dispatchers share the table, and a lookup of greet through the first
\* has found byeFn, registered there in the place of another callable
C6_Witness ==
    /\ Len(dispatchers) = 2
    /\ given[1] = <<>> /\ given[2] = <<>>
    /\ result.op = "lookup"
    /\ result.obj = 1
    /\ LookedUp = "greet"
    /\ result.fn = "byeFn"
    /\ registered["bye"] = Callable("greetFn")

\* the tables of the dispatchers that have their own
OwnTables == [i \in 1..Len(dispatchers) |-> dispatchers[i].table]

\* a dispatch or lookup that found a dotted path with a module part imported
\* that module
ImportedAfresh ==
    (/\ result.op \in {"WsgiRoute.__call__", "lookup"}
     /\ HasKey(TableOf(Self), LookedUp)
     /\ TableOf(Self)[LookedUp].kind = "str"
     /\ Len(Self.modpath \o TableOf(Self)[LookedUp].path) >= 2)
    => \E i \in 1..Len(log) : log[i].ev = "import"

\* C9: no call of a dispatcher, of lookup or of getcallback changes a
\* table: every entry, a dotted path in particular, is afterwards what it was
\* before, and each dispatch through a dotted path imports it again.
C9_LookupLeavesTable ==
    [][result'.op \in {"WsgiRoute.__call__", "lookup", "getcallback"}
       => /\ routes' = routes
          /\ OwnTables' = OwnTables
          /\ ImportedAfresh']_vars

\* a dispatch through the dotted path registered under bye imported the
\* module, called what it found and left the dotted path in the table
C9_Witness ==
    /\ result.op = "WsgiRoute.__call__"
    /\ result.state = "returned"
    /\ given[result.obj] = <<>>
    /\ LookedUp = "bye"
    /\ routes["bye"] = Dotted(<<"plugins", "bye">>)
    /\ \E i \in 1..Len(log) : log[i].ev = "import"

====
